---- MODULE Spec2Model ----
(***************************************************************************)
(* Model of pymisp/abstract.py: the AbstractMISP base class (a mapping     *)
(* view over an object's attributes, "edited" tracking, the not-jsonable   *)
(* list, to_dict / to_json / from_dict / from_json) and the MISPEncode     *)
(* JSON encoder.                                                           *)
(*                                                                         *)
(* Python values are records tagged with their type in the field "kind".   *)
(* An instance is described by its instance dictionary vars(self):         *)
(*   __dict__[e]          the public attributes (a name bound to Absent    *)
(*                        is not a key of vars(self)),                     *)
(*   __edited[e]          vars(self)['_AbstractMISP__edited'],             *)
(*   __not_jsonable[e]    vars(self)['_AbstractMISP__not_jsonable'],       *)
(* and cls__not_jsonable is the class attribute of line 30, a list object  *)
(* that instances share until they rebind their own attribute.             *)
(***************************************************************************)
EXTENDS Naturals, Sequences, FiniteSets

VARIABLES constructed, __dict__, __edited, __not_jsonable, cls__not_jsonable,
          global_pythonify, warninglists, result

vars == <<constructed, __dict__, __edited, __not_jsonable, cls__not_jsonable,
          global_pythonify, warninglists, result>>

\* The objects of abstract.py.
abstract_vars == <<constructed, __dict__, __edited, __not_jsonable, cls__not_jsonable>>

\* The PyMISP client of api.py, the server's warninglists and what the last
\* call of the client gave its caller.
api_vars == <<global_pythonify, warninglists, result>>

(***************************************************************************)
(* Bounds.                                                                 *)
(***************************************************************************)
\* Timestamps (epoch seconds) are drawn from 1..MaxEpoch.
MaxEpoch == 1
\* A list of entities held in a field has at most MaxListLen elements.
MaxListLen == 1
\* The objects of the run; an object holds only objects that come after it,
\* so that the object graph has no cycle.
Entity == {1, 2}
\* The attribute names the callers use.
Name == {"name", "timestamp", "child"}
\* The names the callers pass to update_not_jsonable / set_not_jsonable.
NotJsonableName == {"timestamp"}
Warninglist == {1, 2}

(***************************************************************************)
(* Python values.                                                          *)
(***************************************************************************)
Absent == [kind |-> "absent"]
None == [kind |-> "None"]
Int(n) == [kind |-> "int", n |-> n]
Str(s) == [kind |-> "str", s |-> s]
Float(n) == [kind |-> "float", n |-> n]
Datetime(n) == [kind |-> "datetime", epoch |-> n]
Obj(e) == [kind |-> "AbstractMISP", id |-> e]
List(s) == [kind |-> "list", items |-> s]
Dict(f) == [kind |-> "dict", items |-> f]
Raise(exc) == [kind |-> "raise", exc |-> exc]

isinstance(v, kinds) == v.kind \in kinds

\* self.__not_jsonable is ClassList (the instance has no attribute of its
\* own, or its attribute is bound to the class's own list object: both read
\* and extend the class's list) or a tuple of the instance's own.  Lists and
\* tuples of names are kept as sets of names: the code only tests membership.
ClassList == [kind |-> "classlist"]
Tuple(S) == [kind |-> "tuple", items |-> S]

\* Sequences over S of length 1..n.
RECURSIVE SeqsUpTo(_, _)
SeqsUpTo(S, n) ==
    IF n = 0 THEN {}
    ELSE LET shorter == SeqsUpTo(S, n - 1)
         IN  {<<x>> : x \in S} \cup shorter
             \cup {Append(s, x) : s \in shorter, x \in S}

Holdable(e) == {c \in Entity : c > e}

\* The values a caller gives to attribute n of object e.
InputValues(e, n) ==
    CASE n = "name" -> {Str("x")}
      [] n = "timestamp" ->
            {Int(k) : k \in 1..MaxEpoch} \cup {Float(1)}
            \cup IF Holdable(e) = {} THEN {}
                 ELSE {None, Str("t"), Datetime(1)}
      [] n = "child" ->
            {Obj(c) : c \in Holdable(e)}
            \cup {List(s) : s \in SeqsUpTo({Obj(c) : c \in Holdable(e)}, MaxListLen)}


(***************************************************************************)
(* vars(self) and the properties property (lines 36-43).                   *)
(***************************************************************************)
Private == {"_AbstractMISP__edited", "_AbstractMISP__not_jsonable"}

startswith_underscore(prop) == prop \in Private

\* The keys of vars(self) for an instance whose public attributes are d.
vars_keys(d) == {p \in DOMAIN d : d[p] # Absent} \cup Private

\* self.__not_jsonable: the instance attribute, else the class attribute.
not_jsonable_lookup(nj, cls) == IF nj = ClassList THEN cls ELSE nj.items

\* The public attributes, whatever the not-jsonable list holds.
props_ignoring_not_jsonable(d, nj, cls) ==
    {prop \in vars_keys(d) : ~startswith_underscore(prop)}

\* The attributes outside the not-jsonable list, private ones among them.
props_with_underscore(d, nj, cls) ==
    {prop \in vars_keys(d) : prop \notin not_jsonable_lookup(nj, cls)}

props(d, nj, cls) ==
    {prop \in vars_keys(d) :
        ~(startswith_underscore(prop) \/ prop \in not_jsonable_lookup(nj, cls))}

properties(e) == props(__dict__[e], __not_jsonable[e], cls__not_jsonable)

(***************************************************************************)
(* The edited property (lines 106-118).  The loop runs over                *)
(* self.properties, whose elements are the attribute names.                *)
(***************************************************************************)
\* The object bound to the loop variable p of line 110, for an instance whose
\* public attributes are d.
\* A loop variable bound to the attribute's value.
scanned_value(d, p) == d[p]

scanned(d, p) == Str(p)

\* The public attributes and the flag of instance e.
self(e) == [d |-> __dict__[e], edited |-> __edited[e]]

all_AbstractMISP(l) == \A i \in 1..Len(l.items) : isinstance(l.items[i], {"AbstractMISP"})

\* A getter that reports edited as soon as a property holds an entity or a list.
edited_of_by_containment(st, nj, cls) ==
    \/ st.edited
    \/ \E p \in props(st.d, nj, cls) : isinstance(st.d[p], {"AbstractMISP", "list"})

RECURSIVE edited(_)
\* The getter on an instance in state st with not-jsonable attribute nj.
edited_of(st, nj, cls) ==
    IF st.edited THEN TRUE
    ELSE \E p \in props(st.d, nj, cls) :
            LET o == scanned(st.d, p)
            IN  \/ isinstance(o, {"AbstractMISP"}) /\ edited(o.id)
                \/ /\ isinstance(o, {"list"})
                   /\ all_AbstractMISP(o)
                   /\ \E i \in 1..Len(o.items) : edited(o.items[i].id)

edited(e) == edited_of(self(e), __not_jsonable[e], cls__not_jsonable)

\* The objects whose edited getter one call of e.edited evaluates.
RECURSIVE edited_calls(_)
edited_calls(e) ==
    {e} \cup
    IF __edited[e] THEN {}
    ELSE UNION {LET o == scanned(__dict__[e], p)
                IN  IF isinstance(o, {"AbstractMISP"}) THEN edited_calls(o.id)
                    ELSE IF isinstance(o, {"list"}) /\ all_AbstractMISP(o)
                         THEN UNION {edited_calls(o.items[i].id) : i \in 1..Len(o.items)}
                         ELSE {}
                : p \in properties(e)}

\* The flags after e.edited has run: a getter that finds an edited child
\* stores True in its own flag (lines 114 and 117).
edited_getter_flags(e) ==
    [x \in Entity |-> IF x \in edited_calls(e) THEN edited(x) ELSE __edited[x]]

(***************************************************************************)
(* to_dict (lines 63-79) and _datetime_to_timestamp (lines 132-139).       *)
(***************************************************************************)
\* A conversion that returns a datetime as it is.
_datetime_to_timestamp_unconverted(d) ==
    IF isinstance(d, {"int", "str", "datetime"}) THEN d ELSE Raise("AttributeError")

_datetime_to_timestamp(d) ==
    IF isinstance(d, {"int", "str"}) THEN d
    ELSE IF isinstance(d, {"datetime"}) THEN Float(d.epoch)
    ELSE Raise("AttributeError")

\* getattr(self, attribute, None) on the public attributes d
getattr(d, attribute) ==
    IF attribute \in DOMAIN d /\ d[attribute] # Absent THEN d[attribute] ELSE None

\* A to_dict that leaves out the test of line 70.
to_dict_keys_with_timestamp(d, nj, cls, ed) ==
    {attribute \in props(d, nj, cls) : getattr(d, attribute) # None}

\* A to_dict that leaves out the test of line 67.
to_dict_keys_with_None(d, nj, cls, ed) ==
    {attribute \in props(d, nj, cls) : ~(attribute = "timestamp" /\ ed)}

\* The attributes that pass the tests of lines 67 and 70; ed is self.edited.
to_dict_keys(d, nj, cls, ed) ==
    {attribute \in props(d, nj, cls) :
        /\ getattr(d, attribute) # None
        /\ ~(attribute = "timestamp" /\ ed)}

to_dict_value(d, attribute) ==
    IF attribute = "timestamp"
    THEN _datetime_to_timestamp(getattr(d, attribute))
    ELSE getattr(d, attribute)

\* to_dict on an instance with public attributes d, not-jsonable attribute
\* nj and self.edited = ed: the mapping built, or the exception of line 77.
to_dict_of(d, nj, cls, ed) ==
    LET keys == to_dict_keys(d, nj, cls, ed)
    IN  IF \E attribute \in keys : isinstance(to_dict_value(d, attribute), {"raise"})
        THEN Raise("AttributeError")
        ELSE Dict([attribute \in keys |-> to_dict_value(d, attribute)])

to_dict(e) == to_dict_of(__dict__[e], __not_jsonable[e], cls__not_jsonable, edited(e))

\* to_dict reads self.edited (line 70) when it meets a timestamp that is not None.
to_dict_reads_edited(e) ==
    "timestamp" \in properties(e) /\ getattr(__dict__[e], "timestamp") # None

to_dict_flags(e) == IF to_dict_reads_edited(e) THEN edited_getter_flags(e) ELSE __edited

(***************************************************************************)
(* The edited setter (lines 120-125) and __setattr__ (lines 127-130), on   *)
(* the public attributes d and the flag of one instance.  A call gives the *)
(* exception it raises ("none" when it returns) and the state it leaves.   *)
(***************************************************************************)
Bool(b) == [kind |-> "bool", b |-> b]

\* An edited setter that takes any value for True.
edited_setter_truthy(old, val) ==
    [exc |-> "none", edited |-> IF isinstance(val, {"bool"}) THEN val.b ELSE TRUE]

\* The edited setter on flag value old.
edited_setter(old, val) ==
    IF isinstance(val, {"bool"}) THEN [exc |-> "none", edited |-> val.b]
    ELSE [exc |-> "Exception", edited |-> old]

\* The names the class binds to a property: "edited" has a setter,
\* "properties" (lines 36-37) has none.
Reserved == {"edited", "properties"}

\* super().__setattr__(name, value) of line 130: a property of the class takes
\* the assignment, any other name is bound in vars(self).
object___setattr__(st, name, value) ==
    CASE name = "edited" ->
            LET r == edited_setter(st.edited, value)
            IN  [exc |-> r.exc, st |-> [st EXCEPT !.edited = r.edited]]
      [] name = "properties" -> [exc |-> "AttributeError", st |-> st]
      [] OTHER -> [exc |-> "none", st |-> [st EXCEPT !.d[name] = value]]

\* A __setattr__ that assigns the flag the test of line 128 instead of raising it.
__setattr___assigns_flag(st, nj, cls, name, value) ==
    object___setattr__([st EXCEPT !.edited = name \in props(st.d, nj, cls)], name, value)

__setattr__(st, nj, cls, name, value) ==
    object___setattr__(
        [st EXCEPT !.edited = IF name \in props(st.d, nj, cls) THEN TRUE ELSE @],
        name, value)

(***************************************************************************)
(* from_dict (lines 45-51).  kwargs is kwargs.items(): the sequence of     *)
(* <<prop, value>> pairs in the order the loop of line 46 visits them.     *)
(***************************************************************************)
returned(st) == [exc |-> "none", st |-> st]

\* A loop that leaves out the test of line 47.
RECURSIVE from_dict_loop_assigns_None(_, _, _, _)
from_dict_loop_assigns_None(st, nj, cls, kwargs) ==
    IF kwargs = <<>> THEN returned(st)
    ELSE LET r == __setattr__(st, nj, cls, Head(kwargs)[1], Head(kwargs)[2])
         IN  IF r.exc # "none" THEN r
             ELSE from_dict_loop_assigns_None(r.st, nj, cls, Tail(kwargs))

\* The loop of lines 46-49 over the pairs left to visit; an exception of
\* setattr ends it with the pairs visited so far applied.
RECURSIVE from_dict_loop(_, _, _, _)
from_dict_loop(st, nj, cls, kwargs) ==
    IF kwargs = <<>> THEN returned(st)
    ELSE LET prop == Head(kwargs)[1]
             value == Head(kwargs)[2]
             r == IF value = None THEN returned(st)
                  ELSE __setattr__(st, nj, cls, prop, value)
         IN  IF r.exc # "none" THEN r
             ELSE from_dict_loop(r.st, nj, cls, Tail(kwargs))

\* A from_dict that first drops every attribute kwargs does not name.
from_dict_replaces(st, nj, cls, kwargs) ==
    LET kept == [st EXCEPT !.d = [n \in DOMAIN st.d |->
                                    IF \E i \in 1..Len(kwargs) : kwargs[i][1] = n
                                    THEN st.d[n] ELSE Absent]]
        r == from_dict_loop(kept, nj, cls, kwargs)
    IN  IF r.exc # "none" THEN r ELSE returned([r.st EXCEPT !.edited = FALSE])

\* A from_dict that leaves out the assignment of line 51.
from_dict_keeps_flag(st, nj, cls, kwargs) == from_dict_loop(st, nj, cls, kwargs)

\* from_dict: the loop, then self.__edited = False when the loop has ended.
from_dict(st, nj, cls, kwargs) ==
    LET r == from_dict_loop(st, nj, cls, kwargs)
    IN  IF r.exc # "none" THEN r ELSE returned([r.st EXCEPT !.edited = FALSE])

\* The order in which the pairs of a mapping are listed.
KeyOrder == <<"name", "timestamp", "child", "edited", "properties">>

\* f.items() for a mapping f.
items(f) ==
    LET keys == SelectSeq(KeyOrder, LAMBDA k : k \in DOMAIN f)
    IN  [i \in 1..Len(keys) |-> <<keys[i], f[keys[i]]>>]

keys_of(kwargs) == {kwargs[i][1] : i \in 1..Len(kwargs)}

\* The value kwargs gives for prop, a key of it.
value_of(kwargs, prop) == kwargs[CHOOSE i \in 1..Len(kwargs) : kwargs[i][1] = prop][2]

\* The keyword arguments a caller hydrates object e with: each name is left
\* out or given one of its input values.
kwargs_of(choice) == [n \in {m \in Name : choice[m] # Absent} |-> choice[n]]

PlainKwargs(e) ==
    {items(kwargs_of([n \in Name |-> CASE n = "name" -> a [] n = "timestamp" -> t [] n = "child" -> c])) :
        a \in InputValues(e, "name") \cup {Absent},
        t \in InputValues(e, "timestamp") \cup {Absent},
        c \in InputValues(e, "child") \cup {Absent}}

InsertAt(s, i, x) == SubSeq(s, 1, i) \o <<x>> \o SubSeq(s, i + 1, Len(s))

\* Keyword arguments with one key that names a property of the class, alone
\* or before or after a key for a name.
ReservedKwargs(e) ==
    LET base == {<<>>, <<<<"name", Str("x")>>>>}
        pairs == {<<"edited", Bool(TRUE)>>, <<"edited", Str("yes")>>,
                  <<"properties", Str("x")>>}
    IN  UNION {{InsertAt(s, i, x) : i \in 0..Len(s), x \in pairs} : s \in base}

\* The keyword arguments callers pass, per object.
KwargsTable == [e \in Entity |-> PlainKwargs(e) \cup ReservedKwargs(e)]

Kwargs(e) == KwargsTable[e]

(***************************************************************************)
(* JSON.  A JSON text is kept as the document it denotes; json.dumps with  *)
(* cls=MISPEncode (lines 19-24, 84-85) and json.loads map between Python   *)
(* values and documents.                                                   *)
(***************************************************************************)
JNull == [kind |-> "json_null"]
JNumber(n, frac) == [kind |-> "json_number", n |-> n, frac |-> frac]
JString(str) == [kind |-> "json_string", s |-> str]
JArray(seq) == [kind |-> "json_array", items |-> seq]
JObject(f) == [kind |-> "json_object", items |-> f]
Malformed == [kind |-> "json_malformed"]

first_raise(S) == CHOOSE r \in S : isinstance(r, {"raise"})

\* JSONEncoder.default (line 24) for every object.
JSONEncoder_default(obj) == Raise("TypeError")

RECURSIVE json_dumps(_)
\* A default that encodes every entity as a not-edited one.
MISPEncode_default_as_clean(obj) ==
    IF isinstance(obj, {"AbstractMISP"})
    THEN LET d == to_dict_of(__dict__[obj.id], __not_jsonable[obj.id], cls__not_jsonable, FALSE)
         IN  IF isinstance(d, {"raise"}) THEN d ELSE json_dumps(d)
    ELSE Raise("TypeError")

\* MISPEncode.default: an AbstractMISP is replaced by its jsonable(), that is
\* its to_dict(); anything else the encoder does not know raises TypeError.
MISPEncode_default(obj) ==
    IF isinstance(obj, {"AbstractMISP"})
    THEN LET d == to_dict(obj.id)
         IN  IF isinstance(d, {"raise"}) THEN d ELSE json_dumps(d)
    ELSE Raise("TypeError")

json_dumps(v) ==
    CASE isinstance(v, {"None"}) -> JNull
      [] isinstance(v, {"int"}) -> JNumber(v.n, FALSE)
      [] isinstance(v, {"float"}) -> JNumber(v.n, TRUE)
      [] isinstance(v, {"str"}) -> JString(v.s)
      [] isinstance(v, {"list"}) ->
            LET enc == [i \in 1..Len(v.items) |-> json_dumps(v.items[i])]
                out == {enc[i] : i \in 1..Len(v.items)}
            IN  IF \E r \in out : isinstance(r, {"raise"}) THEN first_raise(out)
                ELSE JArray(enc)
      [] isinstance(v, {"dict"}) ->
            LET enc == [k \in DOMAIN v.items |-> json_dumps(v.items[k])]
                out == {enc[k] : k \in DOMAIN v.items}
            IN  IF \E r \in out : isinstance(r, {"raise"}) THEN first_raise(out)
                ELSE JObject(enc)
      [] OTHER -> MISPEncode_default(v)

\* to_json (lines 84-85): json.dumps(self, cls=MISPEncode).
to_json(e) == json_dumps(Obj(e))

RECURSIVE json_loads(_)
json_loads(text) ==
    CASE isinstance(text, {"json_null"}) -> None
      [] isinstance(text, {"json_number"}) -> IF text.frac THEN Float(text.n) ELSE Int(text.n)
      [] isinstance(text, {"json_string"}) -> Str(text.s)
      [] isinstance(text, {"json_array"}) ->
            List([i \in 1..Len(text.items) |-> json_loads(text.items[i])])
      [] isinstance(text, {"json_object"}) ->
            Dict([k \in DOMAIN text.items |-> json_loads(text.items[k])])
      [] OTHER -> Raise("ValueError")

\* The objects whose to_dict one call of e.to_json() runs.
RECURSIVE to_json_calls(_)
to_json_calls(e) ==
    {e} \cup
    IF isinstance(to_dict(e), {"raise"}) THEN {}
    ELSE UNION {LET v == to_dict(e).items[k]
                IN  IF isinstance(v, {"AbstractMISP"}) THEN to_json_calls(v.id)
                    ELSE IF isinstance(v, {"list"})
                         THEN UNION {IF isinstance(v.items[i], {"AbstractMISP"})
                                     THEN to_json_calls(v.items[i].id) ELSE {}
                                     : i \in 1..Len(v.items)}
                         ELSE {}
                : k \in DOMAIN to_dict(e).items}

to_json_flags(e) ==
    [x \in Entity |->
        IF \E y \in to_json_calls(e) : to_dict_reads_edited(y) /\ x \in edited_calls(y)
        THEN edited(x) ELSE __edited[x]]

\* from_dict is declared def from_dict(self, **kwargs) (line 45): a call
\* binds only when it passes no positional argument besides self.
from_dict_binds(positional) == positional = <<>>

\* The arguments of the call of line 61: self.from_dict(json.loads(json_string)).
from_json_call(parsed) == [positional |-> <<parsed>>, kwargs |-> <<>>]

\* from_json (lines 59-61) on an instance in state st: the exception it
\* raises ("none" when it returns) and the state it leaves.
from_json(st, nj, cls, json_string) ==
    LET parsed == json_loads(json_string)
        call == from_json_call(parsed)
    IN  IF isinstance(parsed, {"raise"}) THEN [exc |-> parsed.exc, st |-> st]
        ELSE IF ~from_dict_binds(call.positional) THEN [exc |-> "TypeError", st |-> st]
        ELSE from_dict(st, nj, cls, call.kwargs)

\* A deletion that stores True in the flag.
__delitem___marks_edited(st, key) ==
    IF st.d[key] = Absent THEN [exc |-> "AttributeError", st |-> st]
    ELSE [exc |-> "none", st |-> [st EXCEPT !.d[key] = Absent, !.edited = TRUE]]

\* __delitem__ (lines 97-98): delattr raises AttributeError for a missing
\* attribute; it does not go through __setattr__.
__delitem__(st, key) ==
    IF st.d[key] = Absent THEN [exc |-> "AttributeError", st |-> st]
    ELSE [exc |-> "none", st |-> [st EXCEPT !.d[key] = Absent]]

(***************************************************************************)
(* The mapping view: __getitem__ (lines 87-92), __iter__ and __len__       *)
(* (lines 100-104).                                                        *)
(***************************************************************************)
\* Names getattr finds on the class: its methods.
Methods == {"to_dict"}

Method(name) == [kind |-> "method", name |-> name]

\* A list or tuple of names, kept as the set of its elements.
Names(S) == [kind |-> "names", items |-> S]

\* The keys callers subscript an object with.
Keys == Name \cup Private \cup Reserved \cup Methods

\* getattr(self, key) of line 89: an instance attribute, a property or a
\* method of the class, or AttributeError.
getattr_no_default(e, key) ==
    CASE key \in Name ->
            IF __dict__[e][key] # Absent THEN __dict__[e][key] ELSE Raise("AttributeError")
      [] key = "_AbstractMISP__edited" -> Bool(__edited[e])
      [] key = "_AbstractMISP__not_jsonable" ->
            Names(not_jsonable_lookup(__not_jsonable[e], cls__not_jsonable))
      [] key = "edited" -> Bool(edited(e))
      [] key = "properties" -> Names(properties(e))
      [] key \in Methods -> Method(key)
      [] OTHER -> Raise("AttributeError")

__getitem__(e, key) ==
    LET r == getattr_no_default(e, key)
    IN  IF r = Raise("AttributeError") THEN Raise("KeyError") ELSE r

\* key in self: MutableMapping (line 28) gives Mapping.__contains__, which
\* subscripts self and answers False on KeyError, True otherwise.
__contains__(e, key) == __getitem__(e, key) # Raise("KeyError")

\* iter(self.to_dict()): the keys of to_dict(), or its exception.
__iter__(e) ==
    IF isinstance(to_dict(e), {"raise"}) THEN to_dict(e)
    ELSE Names(DOMAIN to_dict(e).items)

\* len(self.to_dict())
__len__(e) ==
    IF isinstance(to_dict(e), {"raise"}) THEN to_dict(e)
    ELSE Int(Cardinality(DOMAIN to_dict(e).items))

\* An update_not_jsonable that binds its arguments alone.
update_not_jsonable_replaces(nj, cls, args) == [nj |-> Tuple(args), cls |-> cls]

\* update_not_jsonable (lines 53-54): += extends a list in place and rebinds
\* the attribute to it; on a tuple it binds a new tuple.
update_not_jsonable(nj, cls, args) ==
    IF nj = ClassList THEN [nj |-> ClassList, cls |-> cls \cup args]
    ELSE [nj |-> Tuple(nj.items \cup args), cls |-> cls]

\* set_not_jsonable (lines 56-57)
set_not_jsonable(nj, cls, args) == [nj |-> Tuple(args), cls |-> cls]

\* The flag __init__ stores (line 34).
__init__ == TRUE


(***************************************************************************)
(* State and calls.                                                        *)
(***************************************************************************)
\* No object of abstract.py is constructed yet.
AbstractInit ==
    /\ constructed = {}
    /\ __dict__ = [e \in Entity |-> [n \in Name |-> Absent]]
    /\ __edited = [e \in Entity |-> FALSE]
    /\ __not_jsonable = [e \in Entity |-> ClassList]
    /\ cls__not_jsonable = {}

Init ==
    /\ AbstractInit
    /\ global_pythonify = FALSE
    /\ warninglists = [w \in Warninglist |-> FALSE]
    /\ result = None

\* An object may be stored in a field once it exists.
Exists(v) ==
    /\ isinstance(v, {"AbstractMISP"}) => v.id \in constructed
    /\ isinstance(v, {"list"}) => \A i \in 1..Len(v.items) : v.items[i].id \in constructed

store(e, st) ==
    /\ __dict__' = [__dict__ EXCEPT ![e] = st.d]
    /\ __edited' = [__edited EXCEPT ![e] = st.edited]

\* e = AbstractMISP()
Construct(e) ==
    /\ e \notin constructed
    /\ constructed' = constructed \cup {e}
    /\ __edited' = [__edited EXCEPT ![e] = __init__]
    /\ UNCHANGED <<__dict__, __not_jsonable, cls__not_jsonable>>
    /\ UNCHANGED api_vars

\* e.name = value
SetAttribute(e, name, value) ==
    /\ e \in constructed /\ Exists(value)
    /\ store(e, __setattr__(self(e), __not_jsonable[e], cls__not_jsonable, name, value).st)
    /\ UNCHANGED <<constructed, __not_jsonable, cls__not_jsonable>>
    /\ UNCHANGED api_vars

\* e[key] = value (lines 94-95)
SetItem(e, key, value) ==
    /\ e \in constructed /\ Exists(value)
    /\ store(e, __setattr__(self(e), __not_jsonable[e], cls__not_jsonable, key, value).st)
    /\ UNCHANGED <<constructed, __not_jsonable, cls__not_jsonable>>
    /\ UNCHANGED api_vars

\* del e[key]
DelItem(e, key) ==
    /\ e \in constructed
    /\ store(e, __delitem__(self(e), key).st)
    /\ UNCHANGED <<constructed, __not_jsonable, cls__not_jsonable>>
    /\ UNCHANGED api_vars

\* e.from_dict(**kwargs)
FromDict(e, kwargs) ==
    /\ e \in constructed /\ \A i \in 1..Len(kwargs) : Exists(kwargs[i][2])
    /\ store(e, from_dict(self(e), __not_jsonable[e], cls__not_jsonable, kwargs).st)
    /\ UNCHANGED <<constructed, __not_jsonable, cls__not_jsonable>>
    /\ UNCHANGED api_vars

\* e.from_json(json_string)
FromJson(e, json_string) ==
    /\ e \in constructed
    /\ store(e, from_json(self(e), __not_jsonable[e], cls__not_jsonable, json_string).st)
    /\ UNCHANGED <<constructed, __not_jsonable, cls__not_jsonable>>
    /\ UNCHANGED api_vars

\* e.update_not_jsonable(*args)
UpdateNotJsonable(e, args) ==
    /\ e \in constructed
    /\ LET r == update_not_jsonable(__not_jsonable[e], cls__not_jsonable, args)
       IN  /\ __not_jsonable' = [__not_jsonable EXCEPT ![e] = r.nj]
           /\ cls__not_jsonable' = r.cls
    /\ UNCHANGED <<constructed, __dict__, __edited>>
    /\ UNCHANGED api_vars

\* e.set_not_jsonable(*args)
SetNotJsonable(e, args) ==
    /\ e \in constructed
    /\ LET r == set_not_jsonable(__not_jsonable[e], cls__not_jsonable, args)
       IN  /\ __not_jsonable' = [__not_jsonable EXCEPT ![e] = r.nj]
           /\ cls__not_jsonable' = r.cls
    /\ UNCHANGED <<constructed, __dict__, __edited>>
    /\ UNCHANGED api_vars

\* e.edited
GetEdited(e) ==
    /\ e \in constructed
    /\ __edited' = edited_getter_flags(e)
    /\ UNCHANGED <<constructed, __dict__, __not_jsonable, cls__not_jsonable>>
    /\ UNCHANGED api_vars

\* e.edited = val
SetEdited(e, val) ==
    /\ e \in constructed
    /\ __edited' = [__edited EXCEPT ![e] = edited_setter(@, val).edited]
    /\ UNCHANGED <<constructed, __dict__, __not_jsonable, cls__not_jsonable>>
    /\ UNCHANGED api_vars

\* e.to_dict()
ToDict(e) ==
    /\ e \in constructed
    /\ __edited' = to_dict_flags(e)
    /\ UNCHANGED <<constructed, __dict__, __not_jsonable, cls__not_jsonable>>
    /\ UNCHANGED api_vars

\* e.to_json()
ToJson(e) ==
    /\ e \in constructed
    /\ __edited' = to_json_flags(e)
    /\ UNCHANGED <<constructed, __dict__, __not_jsonable, cls__not_jsonable>>
    /\ UNCHANGED api_vars

\* e[key]; the key "edited" runs the getter.
GetItem(e, key) ==
    /\ e \in constructed
    /\ __edited' = IF key = "edited" THEN edited_getter_flags(e) ELSE __edited
    /\ UNCHANGED <<constructed, __dict__, __not_jsonable, cls__not_jsonable>>
    /\ UNCHANGED api_vars

\* iter(e)
Iter(e) ==
    /\ e \in constructed
    /\ __edited' = to_dict_flags(e)
    /\ UNCHANGED <<constructed, __dict__, __not_jsonable, cls__not_jsonable>>
    /\ UNCHANGED api_vars

\* len(e)
Len_(e) ==
    /\ e \in constructed
    /\ __edited' = to_dict_flags(e)
    /\ UNCHANGED <<constructed, __dict__, __not_jsonable, cls__not_jsonable>>
    /\ UNCHANGED api_vars

\* key in e; subscripting with "edited" runs the getter.
ContainsKey(e, key) ==
    /\ e \in constructed
    /\ __edited' = IF key = "edited" THEN edited_getter_flags(e) ELSE __edited
    /\ UNCHANGED <<constructed, __dict__, __not_jsonable, cls__not_jsonable>>
    /\ UNCHANGED api_vars

\* e.properties
GetProperties(e) ==
    /\ e \in constructed
    /\ UNCHANGED <<constructed, __dict__, __edited, __not_jsonable, cls__not_jsonable>>
    /\ UNCHANGED api_vars

\* The values callers pass to the edited setter.
EditedInputs == {Bool(TRUE), Bool(FALSE), Str("yes")}

\* The mappings of JSON scalars among the keyword arguments.
ScalarKwargsTable ==
    [e \in Entity |->
        {k \in PlainKwargs(e) :
            \A i \in 1..Len(k) : isinstance(k[i][2], {"None", "int", "str"})}]

ScalarKwargs(e) == ScalarKwargsTable[e]

\* dict(kwargs) for a sequence of pairs with distinct keys.
dict(kwargs) == [prop \in keys_of(kwargs) |-> value_of(kwargs, prop)]

\* The texts callers pass to from_json: what to_json gave for an object, the
\* encoding of a mapping of scalars, or a text that is not JSON.
JsonTexts(e) ==
    {Malformed}
    \cup {to_json(x) : x \in {y \in constructed : ~isinstance(to_json(y), {"raise"})}}
    \cup {json_dumps(Dict(dict(kw))) : kw \in ScalarKwargs(e)}

Next ==
    \/ \E e \in Entity : Construct(e)
    \/ \E e \in Entity, n \in Name : \E v \in InputValues(e, n) : SetAttribute(e, n, v)
    \/ \E e \in Entity, n \in Name : \E v \in InputValues(e, n) : SetItem(e, n, v)
    \/ \E e \in Entity, n \in Name : DelItem(e, n)
    \/ \E e \in Entity : \E kwargs \in Kwargs(e) : FromDict(e, kwargs)
    \/ \E e \in Entity : \E text \in JsonTexts(e) : FromJson(e, text)
    \/ \E e \in Entity, args \in SUBSET NotJsonableName : UpdateNotJsonable(e, args)
    \/ \E e \in Entity, args \in SUBSET NotJsonableName : SetNotJsonable(e, args)
    \/ \E e \in Entity : GetEdited(e)
    \/ \E e \in Entity, val \in EditedInputs : SetEdited(e, val)
    \/ \E e \in Entity : ToDict(e)
    \/ \E e \in Entity : ToJson(e)
    \/ \E e \in Entity, key \in Keys : GetItem(e, key)
    \/ \E e \in Entity : Iter(e)
    \/ \E e \in Entity : Len_(e)
    \/ \E e \in Entity, key \in Keys : ContainsKey(e, key)
    \/ \E e \in Entity : GetProperties(e)

Spec == Init /\ [][Next]_vars

(***************************************************************************)
(* Properties.                                                             *)
(***************************************************************************)
Held(e, n) == __dict__[e][n] # Absent

Excluded(e, n) == n \in not_jsonable_lookup(__not_jsonable[e], cls__not_jsonable)

\* p lists a field whose value is c, or a list of entities with c among them.
HoldsChild(p, c) ==
    \E n \in properties(p) :
        LET v == __dict__[p][n]
        IN  \/ v = Obj(c)
            \/ /\ isinstance(v, {"list"}) /\ all_AbstractMISP(v)
               /\ \E i \in 1..Len(v.items) : v.items[i] = Obj(c)

Assigns(e, n, v) == SetAttribute(e, n, v) \/ SetItem(e, n, v)

\* C1: a clean parent p holds a clean child c (directly or in a list of
\* entities); once a field of c is set, here a field c already lists, so that
\* c itself turns edited, p.edited is True.
C1_RecursiveDirtiness ==
    [][\A p \in constructed, c \in constructed, n \in Name :
        \A v \in InputValues(c, n) :
            (/\ HoldsChild(p, c) /\ ~edited(p) /\ ~edited(c)
             /\ n \in properties(c)
             /\ Assigns(c, n, v))
            => edited(p)']_vars

\* C2: setting any public field of a clean entity, held or new, by attribute
\* assignment or by key, leaves the entity edited.
C2_DirectMutationDirties ==
    [][\A e \in constructed, n \in Name :
        \A v \in InputValues(e, n) :
            (~edited(e) /\ Assigns(e, n, v)) => edited(e)']_vars

NoNoneValues(kwargs) == \A i \in 1..Len(kwargs) : kwargs[i][2] # None

\* C3: a from_dict that returns, with keyword arguments none of which is
\* None, on a new or an edited object as on any other, leaves an object whose
\* edited is False.
C3_HydrationClearsDirtiness ==
    \A e \in constructed :
        \A kwargs \in Kwargs(e) :
            LET r == from_dict(self(e), __not_jsonable[e], cls__not_jsonable, kwargs)
            IN  (/\ NoNoneValues(kwargs) /\ \A i \in 1..Len(kwargs) : Exists(kwargs[i][2])
                 /\ r.exc = "none")
                => ~edited_of(r.st, __not_jsonable[e], cls__not_jsonable)

\* C3 witness: an object hydrated with a name and a child it lists reports
\* not edited while that child is edited.
C3_Witness ==
    \E p \in constructed, c \in constructed :
        /\ HoldsChild(p, c) /\ edited(c) /\ ~edited(p)
        /\ Held(p, "name") /\ Held(p, "timestamp")

\* C4: an edited object that holds a timestamp other than None has no
\* "timestamp" key in to_dict(), and every other held, non-excluded field
\* that is not None is a key of to_dict() with its value.
C4_TimestampOmittedWhenEdited ==
    \A e \in constructed :
        (edited(e) /\ Held(e, "timestamp") /\ __dict__[e]["timestamp"] # None)
        => /\ isinstance(to_dict(e), {"dict"})
           /\ "timestamp" \notin DOMAIN to_dict(e).items
           /\ \A n \in Name \ {"timestamp"} :
                (Held(e, n) /\ ~Excluded(e, n) /\ __dict__[e][n] # None)
                => /\ n \in DOMAIN to_dict(e).items
                   /\ to_dict(e).items[n] = __dict__[e][n]

\* C4 witness: an edited object holding name "x" and an integer timestamp
\* whose to_dict() is exactly {name: "x"}.
C4_Witness ==
    \E e \in constructed :
        /\ edited(e) /\ ~Excluded(e, "timestamp")
        /\ isinstance(__dict__[e]["timestamp"], {"int"})
        /\ to_dict(e) = Dict([n \in {"name"} |-> Str("x")])

\* C5 as stated: a not-edited object that holds a timestamp other than None
\* has a "timestamp" key in to_dict(); an int or str value is emitted as it
\* is, a datetime as its epoch seconds.
C5_TimestampWhenClean ==
    \A e \in constructed :
        LET ts == __dict__[e]["timestamp"]
        IN  (~edited(e) /\ Held(e, "timestamp") /\ ts # None)
            => /\ isinstance(to_dict(e), {"dict"})
               /\ "timestamp" \in DOMAIN to_dict(e).items
               /\ isinstance(ts, {"int", "str"}) => to_dict(e).items["timestamp"] = ts
               /\ isinstance(ts, {"datetime"}) => to_dict(e).items["timestamp"] = Float(ts.epoch)

\* C5 amended: the same for a timestamp that is not in the not-jsonable list
\* and whose value is an int, a str or a datetime.
C5_TimestampWhenCleanListed ==
    \A e \in constructed :
        LET ts == __dict__[e]["timestamp"]
        IN  (/\ ~edited(e) /\ Held(e, "timestamp") /\ ~Excluded(e, "timestamp")
             /\ isinstance(ts, {"int", "str", "datetime"}))
            => /\ isinstance(to_dict(e), {"dict"})
               /\ "timestamp" \in DOMAIN to_dict(e).items
               /\ isinstance(ts, {"int", "str"}) => to_dict(e).items["timestamp"] = ts
               /\ isinstance(ts, {"datetime"}) => to_dict(e).items["timestamp"] = Float(ts.epoch)

\* C5 witness: a not-edited object with a datetime timestamp whose to_dict()
\* holds the epoch seconds, and one with an integer timestamp emitted as it is.
C5_Witness ==
    \E e \in constructed, f \in constructed, k \in 1..MaxEpoch :
        /\ ~edited(e) /\ __dict__[e]["timestamp"] = Datetime(k)
        /\ isinstance(to_dict(e), {"dict"}) /\ "timestamp" \in DOMAIN to_dict(e).items
        /\ to_dict(e).items["timestamp"] = Float(k)
        /\ ~edited(f) /\ __dict__[f]["timestamp"] = Int(k)
        /\ isinstance(to_dict(f), {"dict"}) /\ "timestamp" \in DOMAIN to_dict(f).items
        /\ to_dict(f).items["timestamp"] = Int(k)

\* C6: reading edited leaves every flag as it was, and when a parent whose
\* own flag is False lists an edited child, the parent reports edited, and
\* reports not edited again once the child's flag is set back to False.
C6_EditedNeverCached ==
    [][\A p \in constructed, c \in constructed :
        /\ GetEdited(p) => UNCHANGED __edited
        /\ (HoldsChild(p, c) /\ ~__edited[p] /\ edited(c) /\ SetEdited(c, Bool(FALSE)))
           => (edited(p) /\ ~edited(p)')]_vars

\* C7: after edited = False on a parent that lists an edited child, the
\* parent still reports edited.
C7_SetEditedFalseKeepsChildDirt ==
    [][\A p \in constructed, c \in constructed :
        (HoldsChild(p, c) /\ edited(c) /\ SetEdited(p, Bool(FALSE))) => edited(p)']_vars

\* The mapping of the values e holds after the step: a from_dict step on e
\* is one with these keyword arguments, since from_dict only adds or rebinds.
HeldAfter(e) == items([n \in {m \in Name : __dict__'[e][m] # Absent} |-> __dict__'[e][n]])

\* C8: a new object reports edited, and an object that reports edited stops
\* doing so only in a step that is from_dict on it or edited = False on it.
C8_DirtyLifecycle ==
    [][\A e \in Entity :
        /\ Construct(e) => edited(e)'
        /\ (e \in constructed /\ edited(e) /\ ~edited(e)')
           => \/ FromDict(e, HeldAfter(e))
              \/ SetEdited(e, Bool(FALSE))]_vars

\* C8 witness: an object that still reports edited with a field assigned,
\* another one deleted again and its not-jsonable list replaced.
C8_Witness ==
    \E e \in constructed :
        /\ edited(e) /\ Held(e, "name") /\ ~Held(e, "timestamp")
        /\ __not_jsonable[e] = Tuple({"timestamp"})

\* The state of a new object.
New == [d |-> [n \in Name |-> Absent], edited |-> __init__]

\* C9: from_json on the text of a JSON object returns and leaves the object
\* as from_dict with the parsed mapping leaves it.
C9_FromJsonHydrates ==
    \A e \in constructed :
        \A text \in JsonTexts(e) :
            isinstance(text, {"json_object"})
            => LET r == from_json(self(e), __not_jsonable[e], cls__not_jsonable, text)
               IN  /\ r.exc = "none"
                   /\ r = from_dict(self(e), __not_jsonable[e], cls__not_jsonable,
                                    items(json_loads(text).items))

ScalarOnly(e) ==
    \A n \in Name : Held(e, n) => isinstance(__dict__[e][n], {"None", "int", "float", "str"})

WithoutTimestamp(f) == [k \in DOMAIN f \ {"timestamp"} |-> f[k]]

\* C10: for an object e holding only JSON scalars, a new object loaded with
\* from_json(e.to_json()) has the to_dict() of e, the timestamp aside.
C10_JsonRoundTrip ==
    \A e \in constructed :
        (ScalarOnly(e) /\ ~isinstance(to_json(e), {"raise"}))
        => LET r == from_json(New, ClassList, cls__not_jsonable, to_json(e))
               back == to_dict_of(r.st.d, ClassList, cls__not_jsonable, r.st.edited)
           IN  /\ r.exc = "none"
               /\ isinstance(back, {"dict"})
               /\ WithoutTimestamp(back.items) = WithoutTimestamp(to_dict(e).items)

\* The keyword arguments a caller may pass in the current state.
Passable(e, kwargs) == \A i \in 1..Len(kwargs) : Exists(kwargs[i][2])

\* C11: from_dict either returns with every pair whose value is not None
\* applied and the object not edited, or raises and leaves the object's
\* fields and flag as they were before the call.
C11_HydrationAllOrNothing ==
    \A e \in constructed :
        \A kwargs \in Kwargs(e) :
            Passable(e, kwargs)
            => LET r == from_dict(self(e), __not_jsonable[e], cls__not_jsonable, kwargs)
               IN  \/ /\ r.exc = "none"
                      /\ \A i \in 1..Len(kwargs) :
                            (kwargs[i][2] # None /\ kwargs[i][1] \in Name)
                            => r.st.d[kwargs[i][1]] = kwargs[i][2]
                      /\ ~edited_of(r.st, __not_jsonable[e], cls__not_jsonable)
                   \/ /\ r.exc # "none"
                      /\ r.st = self(e)

\* C12: e[key] returns the held value for every key in properties and raises
\* KeyError for every other key: a name not held, a private attribute, a
\* name in the not-jsonable list, a property or a method of the class.
C12_GetItemOnlyListedFields ==
    \A e \in constructed, key \in Keys :
        IF key \in properties(e) THEN __getitem__(e, key) = __dict__[e][key]
        ELSE __getitem__(e, key) = Raise("KeyError")

\* C13: in every state the names iter(e) yields are those of properties and
\* len(e) is their number.
C13_MappingViewIsProperties ==
    \A e \in constructed :
        /\ __iter__(e) = Names(properties(e))
        /\ __len__(e) = Int(Cardinality(properties(e)))

\* The not-jsonable attribute of e is a tuple of its own with n in it.
OwnExclusion(e, n) == isinstance(__not_jsonable[e], {"tuple"}) /\ n \in __not_jsonable[e].items

ExclusionCall(e) ==
    \E args \in SUBSET NotJsonableName : SetNotJsonable(e, args) \/ UpdateNotJsonable(e, args)

HasKey(e, n) == isinstance(to_dict(e), {"dict"}) /\ n \in DOMAIN to_dict(e).items

\* C14: once set_not_jsonable has given e a tuple with n in it, every step
\* that is not a call of set_not_jsonable or update_not_jsonable on e (an
\* assignment or a from_dict on any object among them) leaves n in that
\* tuple, outside properties and outside the keys of to_dict().
C14_ExclusionHoldsOverTime ==
    [][\A e \in constructed, n \in Name :
        (OwnExclusion(e, n) /\ ~ExclusionCall(e))
        => /\ OwnExclusion(e, n)'
           /\ n \notin properties(e)'
           /\ ~HasKey(e, n)']_vars

\* C14 witness: a not-edited object with timestamp in its own tuple that
\* holds an integer timestamp and whose to_dict() is {name: "x"}.
C14_Witness ==
    \E e \in constructed :
        /\ OwnExclusion(e, "timestamp") /\ ~edited(e)
        /\ isinstance(__dict__[e]["timestamp"], {"int"})
        /\ to_dict(e) = Dict([n \in {"name"} |-> Str("x")])

\* The names e's not-jsonable list holds.
Exclusions(e) == not_jsonable_lookup(__not_jsonable[e], cls__not_jsonable)

\* C15: update_not_jsonable(*args) leaves e with the names it had and args;
\* set_not_jsonable(*args) leaves e with args alone, and a held field that
\* was excluded and is not in args is then in properties and, on a not-edited
\* object holding an int or str, in to_dict() with that value.
C15_ExclusionAlgebra ==
    [][\A e \in constructed, args \in SUBSET NotJsonableName :
        /\ UpdateNotJsonable(e, args) => Exclusions(e)' = Exclusions(e) \cup args
        /\ SetNotJsonable(e, args)
           => /\ Exclusions(e)' = args
              /\ \A n \in Name :
                    (Held(e, n) /\ Excluded(e, n) /\ n \notin args)
                    => /\ n \in properties(e)'
                       /\ (~edited(e) /\ isinstance(__dict__[e][n], {"int", "str"}))
                          => (HasKey(e, n)' /\ to_dict(e)'.items[n] = __dict__[e][n])]_vars

\* C15 witness: the class's list excludes timestamp, e has an empty tuple of
\* its own, and e, not edited, has its integer timestamp in to_dict().
C15_Witness ==
    \E e \in constructed :
        /\ cls__not_jsonable = {"timestamp"} /\ __not_jsonable[e] = Tuple({})
        /\ ~edited(e) /\ isinstance(__dict__[e]["timestamp"], {"int"})
        /\ HasKey(e, "timestamp")
        /\ to_dict(e).items["timestamp"] = __dict__[e]["timestamp"]

\* C16: no key of to_dict() maps to None, and a held field whose value is
\* None is no key of to_dict(), which returns, in the not-jsonable list or not.
C16_NoneAbsentInOutput ==
    \A e \in constructed :
        /\ isinstance(to_dict(e), {"dict"})
           => \A k \in DOMAIN to_dict(e).items : to_dict(e).items[k] # None
        /\ \A n \in Name :
            (Held(e, n) /\ __dict__[e][n] = None)
            => (isinstance(to_dict(e), {"dict"}) /\ n \notin DOMAIN to_dict(e).items)

\* C16 witness: a not-edited object holding name "x" and, not excluded, a
\* timestamp of None, whose to_dict() is {name: "x"}.
C16_Witness ==
    \E e \in constructed :
        /\ ~edited(e) /\ __dict__[e]["timestamp"] = None /\ ~Excluded(e, "timestamp")
        /\ to_dict(e) = Dict([n \in {"name"} |-> Str("x")])

\* C17: for every pair of kwargs whose value is None, from_dict leaves the
\* field as it was: not held if it was not held, with its value if it was.
C17_NoneSkippedByHydrate ==
    \A e \in constructed :
        \A kwargs \in Kwargs(e) :
            Passable(e, kwargs)
            => LET r == from_dict(self(e), __not_jsonable[e], cls__not_jsonable, kwargs)
               IN  \A i \in 1..Len(kwargs) :
                      kwargs[i][2] = None => r.st.d[kwargs[i][1]] = __dict__[e][kwargs[i][1]]

\* C17 witness: an object holding an integer timestamp and no name, for which
\* from_dict(name="x", timestamp=None) returns with the name bound and the
\* timestamp kept.
C17_Witness ==
    \E e \in constructed :
        LET kwargs == <<<<"name", Str("x")>>, <<"timestamp", None>>>>
            r == from_dict(self(e), __not_jsonable[e], cls__not_jsonable, kwargs)
        IN  /\ kwargs \in Kwargs(e)
            /\ ~Held(e, "name") /\ isinstance(__dict__[e]["timestamp"], {"int"})
            /\ r.exc = "none" /\ r.st.d["name"] = Str("x")
            /\ r.st.d["timestamp"] = __dict__[e]["timestamp"]

\* p holds c in a field, or in a list of entities in a field.
Contains(p, c) ==
    \E n \in Name :
        LET v == __dict__[p][n]
        IN  \/ v = Obj(c)
            \/ /\ isinstance(v, {"list"}) /\ all_AbstractMISP(v)
               /\ \E i \in 1..Len(v.items) : v.items[i] = Obj(c)

\* C18: an object whose flag is False and whose held entities all report
\* not edited reports not edited.
C18_NotDirtyByContainment ==
    \A p \in constructed :
        (~__edited[p] /\ \A c \in constructed : Contains(p, c) => ~edited(c))
        => ~edited(p)

\* C18 witness: an object with flag False holding a list with a not-edited
\* entity, itself not edited.
C18_Witness ==
    \E p \in constructed, c \in constructed :
        /\ __dict__[p]["child"] = List(<<Obj(c)>>) /\ "child" \in properties(p)
        /\ ~__edited[p] /\ ~edited(c) /\ ~edited(p)

\* The JSON object to_dict() of c encodes to.
Encoded(c) == json_dumps(to_dict(c))

\* What the value v of a field (an entity or a list of entities) encodes to
\* when each entity is replaced by its own to_dict().
EncodedField(v) ==
    IF isinstance(v, {"AbstractMISP"}) THEN Encoded(v.id)
    ELSE JArray([i \in 1..Len(v.items) |-> Encoded(v.items[i].id)])

NestedEncode(p, c) ==
    /\ \A n \in properties(p) :
         (__dict__[p][n] = Obj(c) \/ (isinstance(__dict__[p][n], {"list"}) /\ Contains(p, c)))
         => /\ isinstance(to_json(p), {"json_object"})
            /\ n \in DOMAIN to_json(p).items
            /\ to_json(p).items[n] = EncodedField(__dict__[p][n])
    /\ isinstance(Encoded(c), {"json_object"})
    /\ json_dumps(Dict([k \in {"inner"} |-> List(<<Dict([j \in {"entity"} |-> Obj(c)])>>)]))
       = JObject([k \in {"inner"} |-> JArray(<<JObject([j \in {"entity"} |-> Encoded(c)])>>)])

C20_SetEditedNarrow ==
    \A e \in constructed, val \in EditedInputs :
        LET r == edited_setter(__edited[e], val)
        IN  IF isinstance(val, {"bool"})
            THEN r.exc = "none" /\ r.edited = val.b
            ELSE r.exc = "Exception" /\ r.edited = __edited[e]

\* C20 witness: an object with flag False on which edited = "yes" raises and
\* keeps False, and edited = True gives True.
C20_Witness ==
    \E e \in constructed :
        /\ ~__edited[e] /\ Held(e, "name")
        /\ edited_setter(__edited[e], Str("yes")) = [exc |-> "Exception", edited |-> FALSE]
        /\ edited_setter(__edited[e], Bool(TRUE)) = [exc |-> "none", edited |-> TRUE]

\* C22: no private attribute name is in properties, among the names iter(e)
\* yields, or a key of to_dict().
C22_PrivateNamesNeverListed ==
    \A e \in constructed :
        /\ Private \cap properties(e) = {}
        /\ isinstance(__iter__(e), {"names"}) => Private \cap __iter__(e).items = {}
        /\ isinstance(to_dict(e), {"dict"}) => Private \cap DOMAIN to_dict(e).items = {}

\* C22 witness: an object with a tuple of its own as not-jsonable attribute
\* that holds a name; properties and iteration give that name alone.
C22_Witness ==
    \E e \in constructed :
        /\ __not_jsonable[e] = Tuple({}) /\ Held(e, "name")
        /\ properties(e) = {"name"} /\ __iter__(e) = Names({"name"})

\* C24: update_not_jsonable or set_not_jsonable on e leaves properties and
\* to_dict() of every other object as they were, and a new object starts with
\* no name excluded.
C24_ExclusionsPerEntity ==
    [][/\ \A e \in constructed, f \in constructed, args \in SUBSET NotJsonableName :
            (e # f /\ (UpdateNotJsonable(e, args) \/ SetNotJsonable(e, args)))
            => (properties(f)' = properties(f) /\ to_dict(f)' = to_dict(f))
       /\ \A f \in Entity : Construct(f) => Exclusions(f)' = {}]_vars

\* C25: key in e is True exactly for the names iter(e) yields.
C25_MembershipAgreesWithIteration ==
    \A e \in constructed, key \in Keys :
        __contains__(e, key)
        <=> (isinstance(__iter__(e), {"names"}) /\ key \in __iter__(e).items)

\* A call that reads e without a parameter.
Query(e) ==
    ToDict(e) \/ ToJson(e) \/ GetEdited(e) \/ GetProperties(e) \/ Iter(e) \/ Len_(e)

\* C27: to_dict(), to_json(), edited, properties, iter() and len() leave the
\* attributes, the not-jsonable lists and the flags of all objects unchanged.
C27_QueriesReadOnly ==
    [][\A e \in constructed :
            (UNCHANGED <<constructed, __dict__, __not_jsonable, cls__not_jsonable>> /\ Query(e))
            => UNCHANGED vars]_vars

\* C27 witness: an object with flag False and an integer timestamp that lists
\* an edited child; its getter and its to_json() leave the flags as they are.
C27_Witness ==
    \E p \in constructed, c \in constructed :
        /\ HoldsChild(p, c) /\ ~__edited[p] /\ edited(c)
        /\ isinstance(__dict__[p]["timestamp"], {"int"}) /\ ~Excluded(p, "timestamp")
        /\ edited_getter_flags(p) = __edited /\ to_json_flags(p) = __edited

\* The JSON objects to_json(p) holds for c under "child".
ChildObjects(p, c) ==
    LET v == __dict__[p]["child"]
        j == to_json(p).items["child"]
    IN  IF v = Obj(c) THEN {j}
        ELSE {j.items[i] : i \in {k \in 1..Len(v.items) : v.items[k] = Obj(c)}}

\* C28: in to_json() of an object that holds c, the object for c has the key
\* "timestamp" exactly when c.edited is False, for a c that holds a timestamp
\* outside its not-jsonable list.
C28_NestedTimestampFollowsChild ==
    \A p \in constructed, c \in constructed :
        (/\ Contains(p, c) /\ isinstance(to_json(p), {"json_object"})
         /\ Held(c, "timestamp") /\ __dict__[c]["timestamp"] # None
         /\ ~Excluded(c, "timestamp"))
        => \A o \in ChildObjects(p, c) : ("timestamp" \in DOMAIN o.items) <=> ~edited(c)

\* C28 witness: an edited object holding a not-edited child whose integer
\* timestamp is in the object to_json() emits for the child.
C28_Witness ==
    \E p \in constructed, c \in constructed :
        /\ __dict__[p]["child"] = Obj(c) /\ __edited[p] /\ ~edited(c)
        /\ isinstance(__dict__[c]["timestamp"], {"int"})
        /\ isinstance(to_json(p), {"json_object"})
        /\ "timestamp" \in DOMAIN to_json(p).items["child"].items

\* C29: from_dict leaves every attribute kwargs does not name as it was,
\* removes none, and, when it returns, has bound every pair whose value is
\* not None.
C29_HydrationMerges ==
    \A e \in constructed :
        \A kwargs \in Kwargs(e) :
            Passable(e, kwargs)
            => LET r == from_dict(self(e), __not_jsonable[e], cls__not_jsonable, kwargs)
               IN  /\ \A n \in Name \ keys_of(kwargs) : r.st.d[n] = __dict__[e][n]
                   /\ \A n \in Name : Held(e, n) => r.st.d[n] # Absent
                   /\ r.exc = "none"
                      => \A i \in 1..Len(kwargs) :
                            (kwargs[i][2] # None /\ kwargs[i][1] \in Name)
                            => r.st.d[kwargs[i][1]] = kwargs[i][2]

\* C29 witness: an object holding a name and a child for which
\* from_dict(timestamp=MaxEpoch) binds the timestamp and keeps both.
C29_Witness ==
    \E e \in constructed :
        LET kwargs == <<<<"timestamp", Int(MaxEpoch)>>>>
            r == from_dict(self(e), __not_jsonable[e], cls__not_jsonable, kwargs)
        IN  /\ kwargs \in Kwargs(e)
            /\ Held(e, "name") /\ Held(e, "child") /\ ~Held(e, "timestamp")
            /\ r.exc = "none" /\ r.st.d["timestamp"] = Int(MaxEpoch)
            /\ r.st.d["name"] = __dict__[e]["name"]
            /\ r.st.d["child"] = __dict__[e]["child"]

\* to_dict() of e once del e[key] has left state st.
to_dict_after(e, st) ==
    to_dict_of(st.d, __not_jsonable[e], cls__not_jsonable,
               edited_of(st, __not_jsonable[e], cls__not_jsonable))

\* C30: del e[key] for a held key returns, unbinds that attribute alone and
\* leaves the flag; properties loses key and nothing else, edited is as
\* before, and to_dict(), where it returned before, has its other keys and
\* values.
C30_DeletionFrame ==
    \A e \in constructed, key \in Name :
        Held(e, key)
        => LET r == __delitem__(self(e), key)
           IN  /\ r.exc = "none"
               /\ r.st.d = [__dict__[e] EXCEPT ![key] = Absent]
               /\ r.st.edited = __edited[e]
               /\ props(r.st.d, __not_jsonable[e], cls__not_jsonable) = properties(e) \ {key}
               /\ edited_of(r.st, __not_jsonable[e], cls__not_jsonable) = edited(e)
               /\ isinstance(to_dict(e), {"dict"})
                  => /\ isinstance(to_dict_after(e, r.st), {"dict"})
                     /\ DOMAIN to_dict_after(e, r.st).items = DOMAIN to_dict(e).items \ {key}
                     /\ \A k \in DOMAIN to_dict_after(e, r.st).items :
                            to_dict_after(e, r.st).items[k] = to_dict(e).items[k]

\* C30 witness: a not-edited object holding a name and an integer timestamp;
\* after del e["name"] it is not edited and to_dict() is the timestamp alone.
C30_Witness ==
    \E e \in constructed :
        /\ ~edited(e) /\ Held(e, "name") /\ HasKey(e, "name") /\ HasKey(e, "timestamp")
        /\ ~edited_of(__delitem__(self(e), "name").st, __not_jsonable[e], cls__not_jsonable)
        /\ DOMAIN to_dict_after(e, __delitem__(self(e), "name").st).items = {"timestamp"}

(***************************************************************************)
(* Values that are not JSON in a field other than the timestamp.           *)
(***************************************************************************)
\* What the callers assign under EncodeSpec: a datetime as name, an integer
\* or a float as timestamp, and the children of InputValues.
EncodeValues(e, n) ==
    CASE n = "name" -> {Str("x"), Datetime(1)}
      [] n = "timestamp" -> {Int(1), Float(1)}
      [] OTHER -> InputValues(e, n)

EncodeNext ==
    \/ \E e \in Entity : Construct(e)
    \/ \E e \in Entity, n \in Name : \E v \in EncodeValues(e, n) : SetAttribute(e, n, v)
    \/ \E e \in Entity, val \in {Bool(TRUE), Bool(FALSE)} : SetEdited(e, val)
    \/ \E e \in Entity : ToDict(e)
    \/ \E e \in Entity : ToJson(e)

EncodeSpec == Init /\ [][EncodeNext]_vars

\* to_dict() of e reads a value json has no encoding for: a datetime in a
\* listed field other than the timestamp, or a float as the timestamp of a
\* not-edited object.
MeetsUnsupported(e) ==
    \/ \E n \in properties(e) \ {"timestamp"} : isinstance(__dict__[e][n], {"datetime"})
    \/ /\ ~edited(e) /\ "timestamp" \in properties(e)
       /\ isinstance(__dict__[e]["timestamp"], {"float"})

\* C21: when to_dict() of e reads a value that is neither JSON nor an
\* AbstractMISP, to_dict() and to_json() both raise, and neither changes a
\* flag.
C21_UnsupportedValuesFail ==
    \A e \in constructed :
        MeetsUnsupported(e)
        => /\ isinstance(to_dict(e), {"raise"}) /\ isinstance(to_json(e), {"raise"})
           /\ to_dict_flags(e) = __edited /\ to_json_flags(e) = __edited

(***************************************************************************)
(* api.py: the PyMISP client.                                              *)
(***************************************************************************)
\* A requests.Response: the status code and what response.json() parses,
\* NotJson for a body that is not JSON.
NotJson == [kind |-> "not_json"]
Response(status_code, json) == [status_code |-> status_code, json |-> json]

\* The tuple (a, b).
pair(a, b) == [kind |-> "pair", items |-> <<a, b>>]

\* An object of a class of mispevent.py hydrated from data.
Hydrated(cls, data) == [kind |-> cls, data |-> data]

\* response.json()
response_json(response) ==
    IF response.json = NotJson THEN Raise("ValueError") ELSE response.json

\* _check_response with expect_json=True.
_check_response(response) ==
    LET response_json_ == response_json(response)
    IN  IF response.status_code >= 500 THEN Raise("MISPServerError")
        ELSE IF response.status_code >= 400
        THEN IF isinstance(response_json_, {"raise"}) THEN Raise("MISPServerError")
             ELSE Dict([errors |-> pair(Int(response.status_code), response_json_)])
        ELSE IF isinstance(response_json_, {"raise"}) THEN Raise("PyMISPUnexpectedResponse")
        ELSE IF /\ isinstance(response_json_, {"dict"})
                /\ "response" \in DOMAIN response_json_.items
                /\ response_json_.items["response"] # None
             THEN response_json_.items["response"]
             ELSE response_json_

_check_json_response(response) ==
    LET r == _check_response(response)
    IN  IF isinstance(r, {"dict", "list", "raise"}) THEN r ELSE None

\* key in container, for a dict or a list.
in_(key, container) ==
    IF isinstance(container, {"dict"}) THEN key \in DOMAIN container.items
    ELSE \E i \in 1..Len(container.items) : container.items[i] = Str(key)

\* container[key]
subscript(container, key) ==
    IF isinstance(container, {"dict"})
    THEN IF key \in DOMAIN container.items THEN container.items[key] ELSE Raise("KeyError")
    ELSE Raise("TypeError")

\* for x in container: o = cls(); o.from_dict(**x); to_return.append(o).
\* Iterating a dict gives its keys, and ** of a str raises TypeError.
hydrate_each(container, cls) ==
    IF isinstance(container, {"dict"})
    THEN IF DOMAIN container.items = {} THEN List(<<>>) ELSE Raise("TypeError")
    ELSE IF \E i \in 1..Len(container.items) : ~isinstance(container.items[i], {"dict"})
         THEN Raise("TypeError")
         ELSE List([i \in 1..Len(container.items) |-> Hydrated(cls, container.items[i])])

get_event(response, pythonify) ==
    LET event_r == _check_json_response(response)
    IN  IF isinstance(event_r, {"raise"}) THEN event_r
        ELSE IF ~(global_pythonify \/ pythonify) \/ in_("errors", event_r) THEN event_r
        ELSE Hydrated("MISPEvent", event_r)

tags(response, pythonify) ==
    LET tags_ == _check_json_response(response)
    IN  IF isinstance(tags_, {"raise"}) THEN tags_
        ELSE IF ~(global_pythonify \/ pythonify) \/ in_("errors", tags_)
        THEN subscript(tags_, "Tag")
        ELSE IF isinstance(subscript(tags_, "Tag"), {"raise"}) THEN subscript(tags_, "Tag")
        ELSE hydrate_each(subscript(tags_, "Tag"), "MISPTag")

search_index(response, pythonify) ==
    LET normalized_response == _check_json_response(response)
    IN  IF isinstance(normalized_response, {"raise"}) THEN normalized_response
        ELSE IF ~(global_pythonify \/ pythonify) THEN normalized_response
        ELSE hydrate_each(normalized_response, "MISPEvent")

\* The query toggle_warninglist posts for one id.
toggle_warninglist(warninglist_id, force_enable) ==
    IF force_enable THEN [id |-> <<warninglist_id>>, enabled |-> force_enable]
    ELSE [id |-> <<warninglist_id>>]

enable_warninglist(warninglist) == toggle_warninglist(warninglist, TRUE)

disable_warninglist(warninglist) == toggle_warninglist(warninglist, FALSE)

\* The server's warninglists/toggleEnable: the lists of the query take the
\* state "enabled" when the query has that key and change state otherwise.
toggleEnable(lists, query) ==
    [w \in Warninglist |->
        IF \E i \in 1..Len(query.id) : query.id[i] = w
        THEN IF "enabled" \in DOMAIN query THEN query.enabled ELSE ~lists[w]
        ELSE lists[w]]

\* What the server may answer when it does not serve a request.
Refusals ==
    {Response(c, Dict([message |-> Str("denied")])) : c \in {403, 404}}
    \cup {Response(403, NotJson), Response(500, NotJson), Response(200, NotJson)}

EventId == {1, 2}
Event(id) == Dict([id |-> Int(id)])

EventResponses ==
    {Response(200, Dict([Event |-> Event(id)])) : id \in EventId} \cup Refusals

TagsResponses ==
    {Response(200, Dict([Tag |-> List(t)])) : t \in {<<>>, <<Dict([name |-> Str("x")])>>}}
    \cup Refusals

IndexResponses ==
    {Response(200, List(t)) : t \in {<<>>} \cup {<<Event(id)>> : id \in EventId}}
    \cup Refusals

ToggleResponses ==
    {Response(200, Dict([saved |-> Bool(TRUE)]))} \cup Refusals

ApiInit ==
    /\ AbstractInit
    /\ global_pythonify = FALSE
    /\ warninglists \in [Warninglist -> BOOLEAN]
    /\ result = None

ToggleGlobalPythonify ==
    /\ global_pythonify' = ~global_pythonify
    /\ UNCHANGED <<warninglists, result>>
    /\ UNCHANGED abstract_vars

GetEvent(response, pythonify) ==
    /\ result' = get_event(response, pythonify)
    /\ UNCHANGED <<global_pythonify, warninglists>>
    /\ UNCHANGED abstract_vars

Tags(response, pythonify) ==
    /\ result' = tags(response, pythonify)
    /\ UNCHANGED <<global_pythonify, warninglists>>
    /\ UNCHANGED abstract_vars

SearchIndex(response, pythonify) ==
    /\ result' = search_index(response, pythonify)
    /\ UNCHANGED <<global_pythonify, warninglists>>
    /\ UNCHANGED abstract_vars

\* The server applies the query when it answers 200 and leaves its lists as
\* they are when it refuses.
Post_toggleEnable(query, response) ==
    /\ warninglists' = IF response.status_code = 200 /\ response.json # NotJson
                       THEN toggleEnable(warninglists, query) ELSE warninglists
    /\ result' = _check_json_response(response)
    /\ UNCHANGED global_pythonify
    /\ UNCHANGED abstract_vars

EnableWarninglist(w, response) ==
    /\ w \in Warninglist
    /\ Post_toggleEnable(enable_warninglist(w), response)

DisableWarninglist(w, response) ==
    /\ w \in Warninglist
    /\ Post_toggleEnable(disable_warninglist(w), response)

ApiNext ==
    \/ ToggleGlobalPythonify
    \/ \E response \in EventResponses, pythonify \in BOOLEAN : GetEvent(response, pythonify)
    \/ \E response \in TagsResponses, pythonify \in BOOLEAN : Tags(response, pythonify)
    \/ \E response \in IndexResponses, pythonify \in BOOLEAN : SearchIndex(response, pythonify)
    \/ \E w \in Warninglist, response \in ToggleResponses : EnableWarninglist(w, response)
    \/ \E w \in Warninglist, response \in ToggleResponses : DisableWarninglist(w, response)

ApiSpec == ApiInit /\ [][ApiNext]_vars

\* The server served the request.
Served(response) == response.status_code = 200 /\ response.json # NotJson

\* C23: once disable_warninglist(w) has returned the server's answer to a
\* served request, w is disabled, whatever it was before.
C23_DisableDisables ==
    [][\A w \in Warninglist, response \in ToggleResponses :
            (Served(response) /\ DisableWarninglist(w, response)) => ~warninglists'[w]]_vars

\* The answers _check_json_response turns into a mapping with the key
\* "errors".
ErrorResponses ==
    {r \in Refusals :
        /\ ~isinstance(_check_json_response(r), {"raise"})
        /\ in_("errors", _check_json_response(r))}

\* C26: for an answer whose normalized form has the key "errors", get_event,
\* tags and search_index return that mapping, with pythonify or without.
C26_ErrorsPassThrough ==
    [][\A response \in ErrorResponses, pythonify \in BOOLEAN :
            (\/ GetEvent(response, pythonify)
             \/ Tags(response, pythonify)
             \/ SearchIndex(response, pythonify))
            => result' = _check_json_response(response)]_vars

====
